---- MODULE Spec2Model ----
(***************************************************************************)
(* The workflow orchestration engine of backend/app/orchestrator/          *)
(* workflow.py: WorkflowManager (the registry active_workflows, its        *)
(* capacity check, the background task _execute_workflow) and the graph    *)
(* of nodes and routing conditions that one WorkflowState is driven        *)
(* through, with the queries of api/routes.py (get_workflow_status,         *)
(* list_workflows) and a caller who keeps what they return.                *)
(*                                                                         *)
(* The agents are the environment: a call of agent.execute returns any     *)
(* AgentResult (success flag, data, tokens_used) or raises.  Of a result's *)
(* data the model keeps what the workflow code reads: next_action, the     *)
(* plan's task statuses, revision_required.  asyncio runs one task at a    *)
(* time and switches tasks only at an await, so every action below is the  *)
(* code between two awaits.                                                *)
(*                                                                         *)
(* The components around the orchestrator have specifications of their     *)
(* own over the same variables: BaseAgent.execute (AgentSpec) and          *)
(* add_message (HistorySpec) of agents/base.py, ModelManager (ModelSpec)   *)
(* of models/manager.py, ConnectionManager and websocket_endpoint          *)
(* (ConnectionSpec) of api/websocket.py.                                   *)
(***************************************************************************)
EXTENDS Integers, Sequences, FiniteSets, TLC

VARIABLES
    max_concurrent_workflows,  \* WorkflowManager.max_concurrent_workflows
    active_workflows,          \* the keys of WorkflowManager.active_workflows
    states,                    \* workflow id -> its WorkflowState object
    pc,                        \* workflow id -> where its background task stands
    next_id,                   \* the next identifier uuid4 hands out
    shutdown_pc,               \* where WorkflowManager.shutdown stands
    reply,                     \* what the API call made by the last step returned
    retry_count,               \* workflow id -> consecutive passes over a retry edge
    scenario,                  \* workflow id -> the stage results so far are Scenario A's
    env,                       \* the bounds of the environment of this run
    held,                      \* the result of a query that a reader has kept
    tokens_returned,           \* workflow id -> sum of tokens_used over the results returned
    agent_status,              \* BaseAgent.status of one agent
    execution_stats,           \* BaseAgent.execution_stats of that agent
    executions,                \* caller -> its call of that agent's execute
    is_connected,              \* ModelManager.is_connected
    model_pc,                  \* where the life of the ModelManager stands
    model_stats,               \* ModelManager.stats
    generations,               \* caller -> its call of ModelManager.generate
    message_history,           \* BaseAgent.message_history of one agent
    messages_added,            \* how many messages add_message was given so far
    active_connections,        \* ConnectionManager.active_connections
    workflow_subscriptions,    \* ConnectionManager.workflow_subscriptions
    endpoints,                 \* socket -> its run of websocket_endpoint
    broadcast,                 \* the run of broadcast_to_workflow under way
    since                      \* connection id -> what happened since its last disconnect

workflow_vars == <<max_concurrent_workflows, active_workflows, states, pc,
                   next_id, shutdown_pc, reply, retry_count, scenario, env,
                   held, tokens_returned>>
agent_vars == <<agent_status, execution_stats, executions>>
model_vars == <<is_connected, model_pc, model_stats, generations>>
history_vars == <<message_history, messages_added>>
connection_vars == <<active_connections, workflow_subscriptions, endpoints,
                     broadcast, since>>
\* The components the orchestrator's own steps leave alone.
component_vars == <<agent_vars, model_vars, history_vars, connection_vars>>

vars == <<workflow_vars, component_vars>>

----------------------------------------------------------------------------
(* Bounds of the model. *)

\* Workflows the environment starts when it exercises the registry.
RegistryIds == 2
\* The largest ceiling the registry is configured with (settings.
\* MAX_CONCURRENT_WORKFLOWS, 5 unless the deployment sets it).
MaxCeiling == 2
\* Cap on total_tokens_used, and on the tokens_used of one result.
MaxTokens == 2
\* Cap on the number of tasks of a plan.
MaxTasks == 2
\* Cap on the length of errors.
MaxErrors == 2
\* The retry bound the specification asks for; the code configures none.
RetryLimit == 2
\* Concurrent callers of one agent's execute, and of ModelManager.generate.
Callers == 2
\* Cap on the calls of execute, and of generate, that are counted.
MaxCalls == 3
\* Cap on the messages given to add_message: enough for the history to be
\* cut twice.
MaxMessages == 160
\* WebSocket objects (runs of websocket_endpoint), the connection ids their
\* clients choose from, and the workflow ids connections subscribe to.
Sockets == 2
ConnectionIds == 2
Topics == 1

----------------------------------------------------------------------------
(* Values. *)

\* The members of the enum WorkflowStatus, and the value of each.
PENDING == "PENDING"
RUNNING == "RUNNING"
COMPLETED == "COMPLETED"
FAILED == "FAILED"
TIMEOUT == "TIMEOUT"

WorkflowStatus == {PENDING, RUNNING, COMPLETED, FAILED, TIMEOUT}
StatusValue ==
    (PENDING :> "pending") @@ (RUNNING :> "running")
        @@ (COMPLETED :> "completed") @@ (FAILED :> "failed")
        @@ (TIMEOUT :> "timeout")
TerminalStatus == {COMPLETED, FAILED, TIMEOUT}

\* TaskStatus, by what the workflow code tells apart: pending, completed, and
\* the rest (in_progress, blocked, failed) as "blocked".
TaskStatus == {"pending", "completed", "blocked"}

\* next_action of a result's data: the values the routing conditions know,
\* one they do not know, and "none" for data that is None, empty or has no
\* next_action.
NextActions == {"proceed_to_planning", "await_user_responses",
                "begin_implementation", "deploy_code", "none"}

Min(a, b) == IF a < b THEN a ELSE b

\* All lists of at most k tasks with a status of S.
RECURSIVE TaskLists(_, _)
TaskLists(k, S) ==
    IF k = 0 THEN {<<>>}
    ELSE LET shorter == TaskLists(k - 1, S)
         IN  shorter \cup {Append(l, s) : l \in {x \in shorter : Len(x) = k - 1},
                                          s \in S}

\* completed_at: None, and time.time() as _review_node and, later in the same
\* task, _execute_workflow read it.
Unset == 0
time_at_review == 1
time_at_finish == 2

NoReply == [op |-> "none"]
NoSnapshot == [id |-> 0]

\* Where a background task stands while it awaits agent.execute.
Awaiting == {"qa_intake_await", "manager_await", "code_await"}

\* WorkflowState as start_workflow constructs it (__post_init__ included).
NewWorkflowState(id, user_request) ==
    [workflow_id         |-> id,
     user_request        |-> user_request,
     current_step        |-> "pending",
     status              |-> PENDING,
     requirements_data   |-> [next_action |-> "none"],
     plan_data           |-> [next_action |-> "none", tasks |-> <<>>],
     implementation_data |-> [revision_required  |-> FALSE,
                              all_tasks_complete |-> FALSE,
                              review_status      |-> "none"],
     completed_at        |-> Unset,
     total_tokens_used   |-> 0,
     errors              |-> <<>>]

\* WorkflowState.to_dict: asdict copies the fields, status becomes its value.
to_dict(state) == [state EXCEPT !.status = StatusValue[@]]

Requests == {"build a calculator"}

----------------------------------------------------------------------------
(* The environments of a run: one workflow whose stages return every       *)
(* result or raise, or several workflows whose stages return the plainest  *)
(* results (success or failure, no tokens, at most one task).              *)

LoopEnv ==
    [ids |-> 1, tokens |-> MaxTokens, tasks |-> MaxTasks, errors |-> MaxErrors,
     qa_actions |-> NextActions, manager_actions |-> NextActions,
     task_status |-> TaskStatus, raises |-> TRUE, readers |-> FALSE]
RegistryEnv ==
    [ids |-> RegistryIds, tokens |-> 0, tasks |-> 1, errors |-> 1,
     qa_actions |-> {"proceed_to_planning"},
     manager_actions |-> {"begin_implementation"},
     task_status |-> {"pending"}, raises |-> FALSE, readers |-> FALSE]
\* One workflow, and a caller of the API who keeps what a query returned.
ReaderEnv ==
    [ids |-> 1, tokens |-> 1, tasks |-> 1, errors |-> 1,
     qa_actions |-> {"proceed_to_planning"},
     manager_actions |-> {"begin_implementation"},
     task_status |-> {"pending"}, raises |-> FALSE, readers |-> TRUE]

\* A WebSocket no client has opened yet, no broadcast under way, and a
\* connection id that disconnect was never called for.
NoEndpoint == [pc |-> "new", connection_id |-> 0]
NoBroadcast == [pc |-> "idle", workflow_id |-> 0, subscribers |-> <<>>,
                next |-> 1, delivered |-> {}, stale |-> {}]
NeverDisconnected ==
    [disconnected |-> FALSE, connected |-> FALSE, subscribed |-> FALSE]

\* AgentStatus, and AgentResult by its fields success, error, tokens_used.
AgentStatus == {"idle", "processing", "completed", "error", "timeout"}
AgentResult(success, error, tokens_used) ==
    [success |-> success, error |-> error, tokens_used |-> tokens_used]

\* A caller that has made no call yet.
NoCall == [pc |-> "idle", outcome |-> "none", result |-> AgentResult(FALSE, "", 0)]

\* message_history as BaseAgent.__init__ leaves it.  A message is modelled by
\* its arrival number.
MessageHistoryInit ==
    /\ message_history = <<>>
    /\ messages_added = 0

\* BaseAgent.__init__
BaseAgentInit ==
    /\ agent_status = "idle"
    /\ execution_stats = [total_executions |-> 0, total_tokens |-> 0,
                          success_count |-> 0, error_count |-> 0]
    /\ executions = [c \in 1 .. Callers |-> NoCall]
    /\ MessageHistoryInit

\* ModelManager.__init__
ModelManagerInit ==
    /\ is_connected = FALSE
    /\ model_pc = "new"
    /\ model_stats = [total_requests |-> 0, total_tokens |-> 0]
    /\ generations = [c \in 1 .. Callers |-> [pc |-> "idle", error |-> ""]]

\* ConnectionManager.__init__, with no socket accepted yet.
ConnectionManagerInit ==
    /\ active_connections = <<>>
    /\ workflow_subscriptions = <<>>
    /\ endpoints = [s \in 1 .. Sockets |-> NoEndpoint]
    /\ broadcast = NoBroadcast
    /\ since = [c \in 1 .. ConnectionIds |-> NeverDisconnected]

Init ==
    /\ BaseAgentInit
    /\ ModelManagerInit
    /\ ConnectionManagerInit
    /\ \/ /\ env = LoopEnv
          /\ max_concurrent_workflows = 1
       \/ /\ env = RegistryEnv
          /\ max_concurrent_workflows \in 1 .. MaxCeiling
       \/ /\ env = ReaderEnv
          /\ max_concurrent_workflows = 1
    /\ active_workflows = {}
    /\ states = <<>>
    /\ pc = <<>>
    /\ next_id = 1
    /\ shutdown_pc = "idle"
    /\ reply = NoReply
    /\ retry_count = <<>>
    /\ scenario = <<>>
    /\ held = NoSnapshot
    /\ tokens_returned = <<>>

Created == DOMAIN states

----------------------------------------------------------------------------
(* WorkflowManager.start_workflow *)

\* AtCapacity with the comparison off by one.
AtCapacityStrict == Cardinality(active_workflows) > max_concurrent_workflows

\* len(self.active_workflows) >= self.max_concurrent_workflows
AtCapacity == Cardinality(active_workflows) >= max_concurrent_workflows

\* StartRejected with the check made after the state was registered.
StartRejectedAfterRegistering ==
    /\ next_id <= env.ids
    /\ states' = states @@ (next_id :> NewWorkflowState(next_id,
                                     CHOOSE r \in Requests : TRUE))
    /\ active_workflows' = active_workflows \cup {next_id}
    /\ pc' = pc @@ (next_id :> "done")
    /\ retry_count' = retry_count @@ (next_id :> 0)
    /\ scenario' = scenario @@ (next_id :> TRUE)
    /\ tokens_returned' = tokens_returned @@ (next_id :> 0)
    /\ next_id' = next_id + 1
    /\ reply' = [op |-> "start", error |-> "CapacityError"]
    /\ UNCHANGED <<max_concurrent_workflows, shutdown_pc, env, held,
                   component_vars>>

\* raise RuntimeError("Maximum concurrent workflows ... reached")
StartRejected ==
    /\ reply' = [op |-> "start", error |-> "CapacityError"]
    /\ UNCHANGED <<max_concurrent_workflows, active_workflows, states, pc,
                   next_id, shutdown_pc, retry_count, scenario, env,
                   tokens_returned, held,
                   component_vars>>

\* StartAccepted with the execution awaited instead of scheduled: the id is
\* returned after the task has begun.
StartAcceptedAwaitsTask(user_request) ==
    LET id == next_id IN
    /\ next_id <= env.ids
    /\ states' = states @@ (id :> [NewWorkflowState(id, user_request)
                                      EXCEPT !.status = RUNNING])
    /\ active_workflows' = active_workflows \cup {id}
    /\ pc' = pc @@ (id :> "qa_intake")
    /\ retry_count' = retry_count @@ (id :> 0)
    /\ scenario' = scenario @@ (id :> TRUE)
    /\ tokens_returned' = tokens_returned @@ (id :> 0)
    /\ next_id' = next_id + 1
    /\ reply' = [op |-> "start", error |-> "none", id |-> id]
    /\ UNCHANGED <<max_concurrent_workflows, shutdown_pc, env, held,
                   component_vars>>

\* The state is created and registered, the task is created, the id returned.
StartAccepted(user_request) ==
    LET id == next_id IN
    /\ next_id <= env.ids
    /\ states' = states @@ (id :> NewWorkflowState(id, user_request))
    /\ active_workflows' = active_workflows \cup {id}
    /\ pc' = pc @@ (id :> "scheduled")
    /\ retry_count' = retry_count @@ (id :> 0)
    /\ scenario' = scenario @@ (id :> TRUE)
    /\ tokens_returned' = tokens_returned @@ (id :> 0)
    /\ next_id' = next_id + 1
    /\ reply' = [op |-> "start", error |-> "none", id |-> id]
    /\ UNCHANGED <<max_concurrent_workflows, shutdown_pc, env, held,
                   component_vars>>

start_workflow(user_request) ==
    IF AtCapacity THEN StartRejected ELSE StartAccepted(user_request)

----------------------------------------------------------------------------
(* WorkflowManager.get_workflow_status *)

\* get_workflow_status without the membership test: indexing raises KeyError.
get_workflow_status_unguarded(id) ==
    /\ reply' = IF id \notin active_workflows
                THEN [op |-> "status", id |-> id, error |-> "KeyError"]
                ELSE [op |-> "status", id |-> id, error |-> "none",
                      found |-> TRUE, result |-> to_dict(states[id])]
    /\ UNCHANGED <<max_concurrent_workflows, active_workflows, states, pc,
                   next_id, shutdown_pc, retry_count, scenario, env,
                   tokens_returned, held,
                   component_vars>>

\* None when the id is not a key of active_workflows, else state.to_dict().
get_workflow_status(id) ==
    /\ reply' = IF id \notin active_workflows
                THEN [op |-> "status", id |-> id, error |-> "none",
                      found |-> FALSE]
                ELSE [op |-> "status", id |-> id, error |-> "none",
                      found |-> TRUE, result |-> to_dict(states[id])]
    /\ UNCHANGED <<max_concurrent_workflows, active_workflows, states, pc,
                   next_id, shutdown_pc, retry_count, scenario, env,
                   tokens_returned, held,
                   component_vars>>

----------------------------------------------------------------------------
(* list_workflows of api/routes.py, and the caller of a query. *)

\* The dict list_workflows builds for one workflow.
ListEntry(w) ==
    [workflow_id  |-> w,
     status       |-> StatusValue[states[w].status],
     current_step |-> states[w].current_step,
     completed_at |-> states[w].completed_at]

list_workflows ==
    /\ reply' = [op |-> "list", error |-> "none",
                 workflows   |-> {ListEntry(w) : w \in active_workflows},
                 total_count |-> Cardinality(active_workflows)]
    /\ UNCHANGED <<max_concurrent_workflows, active_workflows, states, pc,
                   next_id, shutdown_pc, retry_count, scenario, env,
                   tokens_returned, held,
                   component_vars>>

\* A shallow copy of the record's fields: the dict would hold the very list
\* errors and the very dict implementation_data that the loop mutates in place.
ShallowCopyShares == {"errors", "implementation_data"}

\* The fields of the dict to_dict returns whose value is an object of the
\* record: none, asdict copies every list and dict recursively.
AsDictShares == {}

\* The caller keeps the dict get_workflow_status returned, or one element of
\* the list list_workflows returned (its values are strings and numbers).
reader_keeps ==
    /\ env.readers
    /\ \/ /\ reply.op = "status"
          /\ reply.found
          /\ held' = [id |-> reply.id, value |-> reply.result,
                      shares |-> AsDictShares]
       \/ /\ reply.op = "list"
          /\ \E entry \in reply.workflows :
                held' = [id |-> entry.workflow_id, value |-> entry,
                         shares |-> {}]
    /\ reply' = NoReply
    /\ UNCHANGED <<max_concurrent_workflows, active_workflows, states, pc,
                   next_id, shutdown_pc, retry_count, scenario, env,
                   tokens_returned,
                   component_vars>>

\* What the caller reads in the value it keeps.
Seen(h) ==
    [f \in DOMAIN h.value |->
        IF f \in h.shares THEN states[h.id][f] ELSE h.value[f]]

Edited == "edited by the caller"

\* The caller writes to the value it keeps: it appends to the list under
\* "errors", or, in an element of the list of workflows, assigns "status".
reader_modifies ==
    /\ held # NoSnapshot
    /\ IF "errors" \in DOMAIN held.value
       THEN /\ Seen(held).errors = <<>>
            /\ IF "errors" \in held.shares
               THEN /\ states' = [states EXCEPT
                                    ![held.id].errors = Append(@, Edited)]
                    /\ UNCHANGED held
               ELSE /\ held' = [held EXCEPT !.value.errors = Append(@, Edited)]
                    /\ UNCHANGED states
       ELSE /\ held.value.status # Edited
            /\ held' = [held EXCEPT !.value.status = Edited]
            /\ UNCHANGED states
    /\ reply' = NoReply
    /\ UNCHANGED <<max_concurrent_workflows, active_workflows, pc, next_id,
                   shutdown_pc, retry_count, scenario, env, tokens_returned,
                   component_vars>>

----------------------------------------------------------------------------
(* WorkflowManager.shutdown: called once, when the application stops. *)

\* Up to the await of the grace period (skipped when the registry is empty).
shutdown_begin ==
    /\ shutdown_pc = "idle"
    /\ shutdown_pc' = IF active_workflows # {} THEN "grace" ELSE "done"
    /\ reply' = NoReply
    /\ UNCHANGED <<max_concurrent_workflows, active_workflows, states, pc,
                   next_id, retry_count, scenario, env,
                   tokens_returned, held,
                   component_vars>>

\* After the sleep: self.active_workflows.clear()
shutdown_clear ==
    /\ shutdown_pc = "grace"
    /\ active_workflows' = {}
    /\ shutdown_pc' = "done"
    /\ reply' = NoReply
    /\ UNCHANGED <<max_concurrent_workflows, states, pc, next_id,
                   retry_count, scenario, env,
                   tokens_returned, held,
                   component_vars>>

----------------------------------------------------------------------------
(* The graph of _build_workflow_graph. *)

Nodes == {"qa_intake", "manager", "code", "review"}
END == "END"

\* QaEdges with the targets of continue_qa and proceed_to_planning exchanged.
QaEdgesCrossed == [continue_qa |-> "manager", proceed_to_planning |-> "qa_intake",
                   error |-> END]

QaEdges == [continue_qa |-> "qa_intake", proceed_to_planning |-> "manager",
            error |-> END]
ManagerEdges == [proceed_to_code |-> "code", revise_plan |-> "manager",
                 error |-> END]
\* CodeEdges with revise_code leading to the review node.
CodeEdgesReviseToReview ==
    [proceed_to_review |-> "review", revise_code |-> "review",
     complete |-> END, error |-> END]

CodeEdges == [proceed_to_review |-> "review", revise_code |-> "code",
              complete |-> END, error |-> END]
\* ReviewEdges with request_revision leading back to the manager node.
ReviewEdgesReplan == [approve |-> END, request_revision |-> "manager",
                      back_to_planning |-> "manager"]

ReviewEdges == [approve |-> END, request_revision |-> "code",
                back_to_planning |-> "manager"]

\* qa_routing_condition without the test of state.status.
qa_routing_condition_unchecked(state) ==
    IF state.requirements_data.next_action = "proceed_to_planning"
    THEN "proceed_to_planning"
    ELSE IF state.requirements_data.next_action = "await_user_responses"
         THEN "continue_qa"
    ELSE "error"

qa_routing_condition(state) ==
    IF state.status = FAILED THEN "error"
    ELSE IF state.requirements_data.next_action = "proceed_to_planning"
         THEN "proceed_to_planning"
    ELSE IF state.requirements_data.next_action = "await_user_responses"
         THEN "continue_qa"
    ELSE "error"

manager_routing_condition(state) ==
    IF state.status = FAILED THEN "error"
    ELSE IF state.plan_data.next_action = "begin_implementation"
         THEN "proceed_to_code"
    ELSE "error"

\* code_routing_condition with the test of all_tasks_complete inverted.
code_routing_condition_inverted(state) ==
    IF state.status = FAILED THEN "error"
    ELSE IF state.implementation_data.revision_required THEN "revise_code"
    ELSE IF ~state.implementation_data.all_tasks_complete THEN "complete"
    ELSE "proceed_to_review"

code_routing_condition(state) ==
    IF state.status = FAILED THEN "error"
    ELSE IF state.implementation_data.revision_required THEN "revise_code"
    ELSE IF state.implementation_data.all_tasks_complete THEN "complete"
    ELSE "proceed_to_review"

review_routing_condition(state) ==
    IF state.implementation_data.review_status = "approved" THEN "approve"
    ELSE IF state.implementation_data.review_status = "continue_implementation"
         THEN "request_revision"
    ELSE "back_to_planning"

\* The node the graph runs after `node` returned `state`.
NextNode(node, state) ==
    CASE node = "qa_intake" -> QaEdges[qa_routing_condition(state)]
      [] node = "manager"   -> ManagerEdges[manager_routing_condition(state)]
      [] node = "code"      -> CodeEdges[code_routing_condition(state)]
      [] node = "review"    -> ReviewEdges[review_routing_condition(state)]

\* A retry edge leads back to the node it leaves.
RetriesAfter(w, node, state) ==
    IF NextNode(node, state) = node
    THEN Min(retry_count[w] + 1, RetryLimit + 1)
    ELSE 0

\* NodeReturns with one errors list shared by all records (a class-level
\* default instead of the list __post_init__ creates per record).
NodeReturnsSharedErrors(w, node, state, in_scenario, tokens_used) ==
    /\ states' = [v \in Created |->
                     IF v = w THEN state
                     ELSE [states[v] EXCEPT !.errors = state.errors]]
    /\ pc' = [pc EXCEPT ![w] = NextNode(node, state)]
    /\ retry_count' = [retry_count EXCEPT ![w] = RetriesAfter(w, node, state)]
    /\ tokens_returned' = [tokens_returned EXCEPT ![w] = @ + tokens_used]
    /\ scenario' = [scenario EXCEPT ![w] = scenario[w] /\ in_scenario]
    /\ reply' = NoReply
    /\ UNCHANGED <<max_concurrent_workflows, active_workflows, next_id,
                   shutdown_pc, env, held,
                   component_vars>>

\* NodeReturns with the next node chosen from the record as it was before the
\* result was applied.
NodeReturnsRoutedEarly(w, node, state, in_scenario, tokens_used) ==
    /\ states' = [states EXCEPT ![w] = state]
    /\ pc' = [pc EXCEPT ![w] = NextNode(node, states[w])]
    /\ retry_count' = [retry_count EXCEPT ![w] = RetriesAfter(w, node, state)]
    /\ tokens_returned' = [tokens_returned EXCEPT ![w] = @ + tokens_used]
    /\ scenario' = [scenario EXCEPT ![w] = scenario[w] /\ in_scenario]
    /\ reply' = NoReply
    /\ UNCHANGED <<max_concurrent_workflows, active_workflows, next_id,
                   shutdown_pc, env, held,
                   component_vars>>

\* The node returned `state`: the record is updated and the graph moves on.
NodeReturns(w, node, state, in_scenario, tokens_used) ==
    /\ states' = [states EXCEPT ![w] = state]
    /\ pc' = [pc EXCEPT ![w] = NextNode(node, state)]
    /\ retry_count' = [retry_count EXCEPT ![w] = RetriesAfter(w, node, state)]
    /\ tokens_returned' = [tokens_returned EXCEPT ![w] = @ + tokens_used]
    /\ scenario' = [scenario EXCEPT ![w] = scenario[w] /\ in_scenario]
    /\ reply' = NoReply
    /\ UNCHANGED <<max_concurrent_workflows, active_workflows, next_id,
                   shutdown_pc, env, held,
                   component_vars>>

\* The node awaits agent.execute.
NodeAwaits(w, node) ==
    /\ states' = [states EXCEPT ![w].current_step = node]
    /\ pc' = [pc EXCEPT ![w] = node \o "_await"]
    /\ reply' = NoReply
    /\ UNCHANGED <<max_concurrent_workflows, active_workflows, next_id,
                   shutdown_pc, retry_count, scenario, env,
                   tokens_returned, held,
                   component_vars>>

\* Fails with the list assigned instead of appended to: the error takes the
\* place of the earlier ones.
FailsOverwriting(state, error) ==
    [state EXCEPT !.errors = <<error>>, !.status = FAILED]

\* Fails without the assignment of the status: the error is only recorded.
FailsRecordedOnly(state, error) == [state EXCEPT !.errors = Append(@, error)]

\* Fails without the append: the status is set and the error dropped.
FailsUnrecorded(state, error) == [state EXCEPT !.status = FAILED]

\* state.errors.append(error); state.status = FAILED
Fails(state, error) ==
    [state EXCEPT !.errors = Append(@, error), !.status = FAILED]

\* The results agent.execute may return within the bounds of the run.
Tokens(state) == 0 .. (env.tokens - state.total_tokens_used)
CanAppendError(state) == Len(state.errors) < env.errors

\* AgentResult.error of the result BaseAgent.execute returns when the agent's
\* process raised asyncio.TimeoutError.
TimedOut == ": Execution timed out"

\* The errors a node appends: `failed` for a result with success false (with
\* the result's error when the call timed out), `raised` for an exception out
\* of agent.execute.
NodeErrors(failed, raised) ==
    IF env.raises THEN {failed, failed \o TimedOut, raised} ELSE {failed}

\* AgentResult.tokens_used of the result behind the error a node appends: any
\* count for a result with success false that the agent's process returned, 0
\* for the result BaseAgent.execute builds on a timeout (the field's default)
\* and when execute raised, which returns no result.
FailedTokens(w, error, failed) ==
    IF error = failed THEN 0 .. (env.tokens - tokens_returned[w]) ELSE {0}

----------------------------------------------------------------------------
(* _qa_intake_node *)

qa_intake_node_call(w) ==
    /\ w \in Created
    /\ pc[w] = "qa_intake"
    /\ NodeAwaits(w, "qa_intake")

\* AddTokens with = for +=.
SetTokens(total, tokens_used) == tokens_used

\* state.total_tokens_used += result.tokens_used
AddTokens(total, tokens_used) == total + tokens_used

qa_intake_node_return(w) ==
    /\ w \in Created
    /\ pc[w] = "qa_intake_await"
    /\ LET state == states[w] IN
       \/ \E next_action \in env.qa_actions, tokens_used \in Tokens(state) :
            NodeReturns(w, "qa_intake",
                [state EXCEPT
                   !.requirements_data = [next_action |-> next_action],
                   !.total_tokens_used = AddTokens(@, tokens_used)],
                next_action \in {"proceed_to_planning", "await_user_responses"},
                tokens_used)
       \/ /\ CanAppendError(state)
          /\ \E error \in NodeErrors("QA Intake failed", "QA Intake error") :
               \E tokens_used \in FailedTokens(w, error, "QA Intake failed") :
                  NodeReturns(w, "qa_intake", Fails(state, error), FALSE,
                              tokens_used)

----------------------------------------------------------------------------
(* _manager_node *)

manager_node_call(w) ==
    /\ w \in Created
    /\ pc[w] = "manager"
    /\ NodeAwaits(w, "manager")

manager_node_return(w) ==
    /\ w \in Created
    /\ pc[w] = "manager_await"
    /\ LET state == states[w] IN
       \/ \E next_action \in env.manager_actions,
             tasks \in TaskLists(env.tasks, env.task_status),
             tokens_used \in Tokens(state) :
            NodeReturns(w, "manager",
                [state EXCEPT
                   !.plan_data = [next_action |-> next_action, tasks |-> tasks],
                   !.total_tokens_used = AddTokens(@, tokens_used)],
                /\ next_action = "begin_implementation"
                /\ tasks # <<>>
                /\ \A i \in DOMAIN tasks : tasks[i] = "pending",
                tokens_used)
       \/ /\ CanAppendError(state)
          /\ \E error \in NodeErrors("Manager failed", "Manager error") :
               \E tokens_used \in FailedTokens(w, error, "Manager failed") :
                  NodeReturns(w, "manager", Fails(state, error), FALSE,
                              tokens_used)

----------------------------------------------------------------------------
(* _code_node *)

PendingTasks(tasks) == {i \in DOMAIN tasks : tasks[i] = "pending"}

\* The first task whose status is pending.
FirstPending(tasks) ==
    CHOOSE i \in PendingTasks(tasks) : \A j \in PendingTasks(tasks) : i <= j

\* Up to the await of the code agent, or through the node when no task is
\* pending: all_tasks_complete is set and the state returned.
code_node_call(w) ==
    /\ w \in Created
    /\ pc[w] = "code"
    /\ LET state == [states[w] EXCEPT !.current_step = "code"] IN
       IF PendingTasks(state.plan_data.tasks) = {}
       THEN NodeReturns(w, "code",
                [state EXCEPT !.implementation_data.all_tasks_complete = TRUE],
                TRUE, 0)
       ELSE NodeAwaits(w, "code")

code_node_return(w) ==
    /\ w \in Created
    /\ pc[w] = "code_await"
    /\ LET state == states[w]
           task  == FirstPending(state.plan_data.tasks)
       IN
       \/ \E tokens_used \in Tokens(state) :
            NodeReturns(w, "code",
                [state EXCEPT
                   !.total_tokens_used = AddTokens(@, tokens_used),
                   !.plan_data.tasks[task] = "completed"],
                TRUE, tokens_used)
       \/ /\ CanAppendError(state)
          /\ \/ \E tokens_used \in
                    FailedTokens(w, "Code generation failed",
                                 "Code generation failed") :
                  NodeReturns(w, "code",
                      [state EXCEPT
                         !.errors = Append(@, "Code generation failed"),
                         !.implementation_data.revision_required = TRUE],
                      FALSE, tokens_used)
             \/ \E error \in NodeErrors("Code generation failed", "Code error") :
                  \E tokens_used \in
                        FailedTokens(w, error, "Code generation failed") :
                     NodeReturns(w, "code", Fails(state, error), FALSE,
                                 tokens_used)

----------------------------------------------------------------------------
(* _review_node *)

\* AllTasksCompleted without the comparison with total_tasks: one completed
\* task is enough.
SomeTaskCompleted(tasks) == \E i \in DOMAIN tasks : tasks[i] = "completed"

AllTasksCompleted(tasks) ==
    /\ Len(tasks) > 0
    /\ \A i \in DOMAIN tasks : tasks[i] = "completed"

review_node(w) ==
    /\ w \in Created
    /\ pc[w] = "review"
    /\ LET state == [states[w] EXCEPT !.current_step = "review"] IN
       NodeReturns(w, "review",
           IF AllTasksCompleted(state.plan_data.tasks)
           THEN [state EXCEPT !.implementation_data.review_status = "approved",
                              !.status = COMPLETED,
                              !.completed_at = time_at_review]
           ELSE [state EXCEPT !.implementation_data.review_status =
                                  "continue_implementation"],
           TRUE, 0)

----------------------------------------------------------------------------
(* _execute_workflow, the background task of one workflow. *)

\* execute_workflow_begin without "state.status = WorkflowStatus.RUNNING".
execute_workflow_begin_not_running(w) ==
    /\ w \in Created
    /\ pc[w] = "scheduled"
    /\ pc' = [pc EXCEPT ![w] = IF w \in active_workflows
                               THEN "qa_intake" ELSE "done"]
    /\ reply' = NoReply
    /\ UNCHANGED <<max_concurrent_workflows, active_workflows, states, next_id,
                   shutdown_pc, retry_count, scenario, env,
                   tokens_returned, held,
                   component_vars>>

\* Up to the await of workflow_graph.ainvoke.  A KeyError (the id is no longer
\* registered) is caught and ends the task.
execute_workflow_begin(w) ==
    /\ w \in Created
    /\ pc[w] = "scheduled"
    /\ IF w \in active_workflows
       THEN /\ states' = [states EXCEPT ![w].status = RUNNING]
            /\ pc' = [pc EXCEPT ![w] = "qa_intake"]
       ELSE /\ pc' = [pc EXCEPT ![w] = "done"]
            /\ UNCHANGED states
    /\ reply' = NoReply
    /\ UNCHANGED <<max_concurrent_workflows, active_workflows, next_id,
                   shutdown_pc, retry_count, scenario, env,
                   tokens_returned, held,
                   component_vars>>

\* final_state.status after "if final_state.status != FAILED: ... COMPLETED"
FinalStatus(status) == IF status # FAILED THEN COMPLETED ELSE status

\* ainvoke returned the final state.
execute_workflow_finish(w) ==
    /\ w \in Created
    /\ pc[w] = END
    /\ active_workflows' = active_workflows \cup {w}
    /\ states' = [states EXCEPT
                    ![w].status = FinalStatus(@),
                    ![w].completed_at = IF states[w].status # FAILED
                                        THEN time_at_finish ELSE @]
    /\ pc' = [pc EXCEPT ![w] = "done"]
    /\ reply' = NoReply
    /\ UNCHANGED <<max_concurrent_workflows, next_id, shutdown_pc,
                   retry_count, scenario, env,
                   tokens_returned, held,
                   component_vars>>

\* ainvoke raised instead of running the next node: the except branch.
execute_workflow_except(w) ==
    /\ w \in Created
    /\ pc[w] \in Nodes
    /\ env.raises
    /\ IF w \in active_workflows
       THEN /\ CanAppendError(states[w])
            /\ states' = [states EXCEPT ![w] = Fails(@, "Execution error")]
       ELSE UNCHANGED states
    /\ pc' = [pc EXCEPT ![w] = "done"]
    /\ scenario' = [scenario EXCEPT ![w] = FALSE]
    /\ reply' = NoReply
    /\ UNCHANGED <<max_concurrent_workflows, active_workflows, next_id,
                   shutdown_pc, retry_count, env, tokens_returned, held,
                   component_vars>>

\* One step of the background task of workflow w.
Loop(w) ==
    \/ execute_workflow_begin(w)
    \/ qa_intake_node_call(w)
    \/ qa_intake_node_return(w)
    \/ manager_node_call(w)
    \/ manager_node_return(w)
    \/ code_node_call(w)
    \/ code_node_return(w)
    \/ review_node(w)
    \/ execute_workflow_finish(w)
    \/ execute_workflow_except(w)

Ids == 1 .. RegistryIds

----------------------------------------------------------------------------
Next ==
    \/ \E r \in Requests : start_workflow(r)
    \/ \E id \in Ids : get_workflow_status(id)
    \/ list_workflows
    \/ reader_keeps
    \/ reader_modifies
    \/ shutdown_begin
    \/ shutdown_clear
    \/ \E w \in Ids : execute_workflow_begin(w)
    \/ \E w \in Ids : qa_intake_node_call(w)
    \/ \E w \in Ids : qa_intake_node_return(w)
    \/ \E w \in Ids : manager_node_call(w)
    \/ \E w \in Ids : manager_node_return(w)
    \/ \E w \in Ids : code_node_call(w)
    \/ \E w \in Ids : code_node_return(w)
    \/ \E w \in Ids : review_node(w)
    \/ \E w \in Ids : execute_workflow_finish(w)
    \/ \E w \in Ids : execute_workflow_except(w)

Spec == Init /\ [][Next]_vars

\* The event loop runs every task that is ready, and every await returns.
FairSpec == Spec /\ \A w \in Ids : WF_vars(Loop(w))

----------------------------------------------------------------------------
(* BaseAgent.execute of agents/base.py: one agent, shared by the tasks of   *)
(* the workflows, which call execute concurrently.  The agent's process is  *)
(* the environment: it returns a result or raises.                          *)

InFlight == {c \in 1 .. Callers : executions[c].pc = "process"}

\* Up to the await of self.process.
execute_begin(c) ==
    /\ executions[c].pc # "process"
    /\ execution_stats.success_count + execution_stats.error_count
           + Cardinality(InFlight) < MaxCalls
    /\ agent_status' = "processing"
    /\ executions' = [executions EXCEPT ![c] = [NoCall EXCEPT !.pc = "process"]]
    /\ UNCHANGED <<execution_stats, workflow_vars, model_vars,
                   history_vars, connection_vars>>

\* What process did: it returned a result with success true or false, raised
\* asyncio.TimeoutError, or raised another exception.
ProcessOutcomes == {"success", "failure", "timeout", "exception"}

\* The "except Exception" branch with the exception raised again.
Reraised(outcome, message) ==
    [pc |-> "raised", outcome |-> outcome, result |-> AgentResult(FALSE, "", 0)]

\* The except branches: the exception becomes a result with success false.
Caught(outcome, message) ==
    [pc |-> "returned", outcome |-> outcome,
     result |-> AgentResult(FALSE, message, 0)]

\* process returned `result`: the stats are updated and the result returned.
execute_returns(c, outcome, result) ==
    /\ execution_stats' =
          [execution_stats EXCEPT
             !.total_executions = @ + 1,
             !.total_tokens = @ + result.tokens_used,
             !.success_count = IF result.success THEN @ + 1 ELSE @,
             !.error_count = IF result.success THEN @ ELSE @ + 1]
    /\ agent_status' = IF result.success THEN "completed" ELSE "error"
    /\ executions' = [executions EXCEPT ![c] =
          [pc |-> "returned", outcome |-> outcome, result |-> result]]

\* process raised: error_count is incremented, the status set, and a result
\* built from the exception returned.
execute_catches(c, outcome, status, message) ==
    /\ execution_stats' = [execution_stats EXCEPT !.error_count = @ + 1]
    /\ agent_status' = status
    /\ executions' = [executions EXCEPT ![c] = Caught(outcome, message)]

\* From the return of self.process to the return of execute.
execute_return(c) ==
    /\ executions[c].pc = "process"
    /\ \/ \E tokens_used \in 0 .. Min(1, MaxTokens - execution_stats.total_tokens) :
            \/ execute_returns(c, "success", AgentResult(TRUE, "", tokens_used))
            \/ execute_returns(c, "failure",
                   AgentResult(FALSE, "process failed", tokens_used))
       \/ execute_catches(c, "timeout", "timeout", "Execution timed out")
       \/ execute_catches(c, "exception", "error", "process error")
    /\ UNCHANGED <<workflow_vars, model_vars,
                   history_vars, connection_vars>>

AgentNext ==
    \/ \E c \in 1 .. Callers : execute_begin(c)
    \/ \E c \in 1 .. Callers : execute_return(c)

\* An agent that has just been constructed.
AgentInit == Init /\ env = LoopEnv

\* The agent and its callers, with the orchestrator at rest.
AgentSpec == AgentInit /\ [][AgentNext]_vars

----------------------------------------------------------------------------
(* BaseAgent.add_message of agents/base.py. *)

\* The sizes in "if len(self.message_history) > 100" and "[-50:]".
HistoryLimit == 100
HistoryKept == 50

\* history[:n], the slice that keeps the oldest n entries.
FirstN(history, n) == SubSeq(history, 1, Min(n, Len(history)))

\* history[-n:]
LastN(history, n) ==
    SubSeq(history, IF Len(history) > n THEN Len(history) - n + 1 ELSE 1,
           Len(history))

add_message ==
    /\ messages_added < MaxMessages
    /\ LET message  == messages_added + 1
           appended == Append(message_history, message)
       IN
       /\ message_history' = IF Len(appended) > HistoryLimit
                             THEN LastN(appended, HistoryKept)
                             ELSE appended
       /\ messages_added' = message
    /\ UNCHANGED <<agent_status, execution_stats, executions, workflow_vars,
                   model_vars, connection_vars>>

HistoryNext == add_message

\* An agent that has just been constructed, and the messages it is given.
HistoryInit == Init /\ env = LoopEnv

HistorySpec == HistoryInit /\ [][HistoryNext]_vars

----------------------------------------------------------------------------
(* ModelManager of models/manager.py.  main.py awaits initialize once, and  *)
(* shutdown once after initialize returned or raised; generate is called    *)
(* by the agents at any time, also by tasks that outlive the shutdown.      *)

\* initialize, up to its first await.
initialize_begin ==
    /\ model_pc = "new"
    /\ model_pc' = "initializing"
    /\ UNCHANGED <<is_connected, model_stats, generations, workflow_vars,
                   agent_vars, history_vars, connection_vars>>

\* Ollama answered and the model is available: self.is_connected = True
initialize_return ==
    /\ model_pc = "initializing"
    /\ is_connected' = TRUE
    /\ model_pc' = "ready"
    /\ UNCHANGED <<model_stats, generations, workflow_vars, agent_vars, history_vars, connection_vars>>

\* _check_ollama_connection or _ensure_model_available raised.
initialize_raises ==
    /\ model_pc = "initializing"
    /\ model_pc' = "failed"
    /\ UNCHANGED <<is_connected, model_stats, generations, workflow_vars,
                   agent_vars, history_vars, connection_vars>>

\* ModelManager.shutdown (nothing else takes self.lock).
model_shutdown ==
    /\ model_pc \in {"ready", "failed"}
    /\ is_connected' = FALSE
    /\ model_pc' = "shut"
    /\ UNCHANGED <<model_stats, generations, workflow_vars, agent_vars, history_vars, connection_vars>>

NotInitialized == "RuntimeError: Ollama model manager not initialized"

Inferring == {c \in 1 .. Callers : generations[c].pc = "inference"}

\* generate_begin without the test of is_connected.
generate_begin_unguarded(c) ==
    /\ generations[c].pc # "inference"
    /\ model_stats.total_requests + Cardinality(Inferring) < MaxCalls
    /\ generations' = [generations EXCEPT
                         ![c] = [pc |-> "inference", error |-> ""]]
    /\ UNCHANGED <<is_connected, model_pc, model_stats, workflow_vars,
                   agent_vars, history_vars, connection_vars>>

\* generate, up to the raise or to the await of the inference call.
generate_begin(c) ==
    /\ generations[c].pc # "inference"
    /\ IF ~is_connected
       THEN generations' = [generations EXCEPT
                              ![c] = [pc |-> "raised", error |-> NotInitialized]]
       ELSE /\ model_stats.total_requests + Cardinality(Inferring) < MaxCalls
            /\ generations' = [generations EXCEPT
                                 ![c] = [pc |-> "inference", error |-> ""]]
    /\ UNCHANGED <<is_connected, model_pc, model_stats, workflow_vars,
                   agent_vars, history_vars, connection_vars>>

\* The inference call returned: the stats are updated, the result returned.
generate_return(c) ==
    /\ generations[c].pc = "inference"
    /\ \E estimated_tokens \in 0 .. Min(1, MaxTokens - model_stats.total_tokens) :
          model_stats' = [model_stats EXCEPT
                            !.total_requests = @ + 1,
                            !.total_tokens = @ + estimated_tokens]
    /\ generations' = [generations EXCEPT ![c] = [pc |-> "returned", error |-> ""]]
    /\ UNCHANGED <<is_connected, model_pc, workflow_vars, agent_vars, history_vars, connection_vars>>

\* The inference call raised: the exception is logged and raised again.
generate_raises(c) ==
    /\ generations[c].pc = "inference"
    /\ generations' = [generations EXCEPT
                         ![c] = [pc |-> "raised", error |-> "inference error"]]
    /\ UNCHANGED <<is_connected, model_pc, model_stats, workflow_vars,
                   agent_vars, history_vars, connection_vars>>

ModelNext ==
    \/ initialize_begin
    \/ initialize_return
    \/ initialize_raises
    \/ model_shutdown
    \/ \E c \in 1 .. Callers : generate_begin(c)
    \/ \E c \in 1 .. Callers : generate_return(c)
    \/ \E c \in 1 .. Callers : generate_raises(c)

\* A ModelManager that has just been constructed.
ModelInit == Init /\ env = LoopEnv

\* The ModelManager and its callers, with the orchestrator at rest.
ModelSpec == ModelInit /\ [][ModelNext]_vars

----------------------------------------------------------------------------
(* ConnectionManager and websocket_endpoint of api/websocket.py.  Each      *)
(* WebSocket is served by one run of websocket_endpoint; the connection id  *)
(* comes from the URL, so two sockets may bring the same one.  A client     *)
(* that has gone away leaves a socket on which send_text raises until the   *)
(* endpoint's receive_text raises WebSocketDisconnect.                      *)

\* The orders in which list(a set) may enumerate `set`.
Orders(set) ==
    {order \in [1 .. Cardinality(set) -> set] :
        \A i, j \in DOMAIN order : order[i] = order[j] => i = j}

\* send_text on the socket raises.
SendFails(socket) == endpoints[socket].pc # "open"

\* The broadcast under way, told that disconnect ran for connection_id.
Noting(b, connection_id) ==
    IF b.pc = "sending" THEN [b EXCEPT !.stale = @ \cup {connection_id}] ELSE b

\* disconnect without the loop over workflow_subscriptions.
disconnect_keeping_subscriptions(connection_id) ==
    /\ active_connections' =
          [c \in DOMAIN active_connections \ {connection_id} |->
              active_connections[c]]
    /\ UNCHANGED workflow_subscriptions
    /\ since' = [since EXCEPT ![connection_id] =
                    [disconnected |-> TRUE, connected |-> FALSE,
                     subscribed |-> FALSE]]

\* ConnectionManager.disconnect
disconnect(connection_id) ==
    /\ active_connections' =
          [c \in DOMAIN active_connections \ {connection_id} |->
              active_connections[c]]
    /\ workflow_subscriptions' =
          [t \in DOMAIN workflow_subscriptions |->
              workflow_subscriptions[t] \ {connection_id}]
    /\ since' = [since EXCEPT ![connection_id] =
                    [disconnected |-> TRUE, connected |-> FALSE,
                     subscribed |-> FALSE]]

\* websocket_endpoint up to the await of websocket.accept in connect.
connect_accept(socket, connection_id) ==
    /\ endpoints[socket].pc = "new"
    /\ endpoints' = [endpoints EXCEPT ![socket] =
                        [pc |-> "accepting", connection_id |-> connection_id]]
    /\ UNCHANGED <<active_connections, workflow_subscriptions, broadcast,
                   since, workflow_vars, agent_vars, model_vars, history_vars>>

\* connect with the socket stored only when the id is free.
connect_register_if_free(socket) ==
    LET connection_id == endpoints[socket].connection_id IN
    /\ endpoints[socket].pc = "accepting"
    /\ IF connection_id \in DOMAIN active_connections
       THEN UNCHANGED <<active_connections, since>>
       ELSE /\ active_connections' =
                  (connection_id :> socket) @@ active_connections
            /\ since' = [since EXCEPT ![connection_id].connected = TRUE]
    /\ endpoints' = [endpoints EXCEPT ![socket].pc = "open"]
    /\ UNCHANGED <<workflow_subscriptions, broadcast, workflow_vars,
                   agent_vars, model_vars, history_vars>>

\* accept returned: self.active_connections[connection_id] = websocket, and
\* the endpoint enters its receive loop.
connect_register(socket) ==
    LET connection_id == endpoints[socket].connection_id IN
    /\ endpoints[socket].pc = "accepting"
    /\ active_connections' = (connection_id :> socket) @@ active_connections
    /\ since' = [since EXCEPT ![connection_id].connected = TRUE]
    /\ endpoints' = [endpoints EXCEPT ![socket].pc = "open"]
    /\ UNCHANGED <<workflow_subscriptions, broadcast, workflow_vars,
                   agent_vars, model_vars, history_vars>>

\* The client of an open socket goes away; its endpoint has not noticed yet.
client_leaves(socket) ==
    /\ endpoints[socket].pc = "open"
    /\ endpoints' = [endpoints EXCEPT ![socket].pc = "broken"]
    /\ UNCHANGED <<active_connections, workflow_subscriptions, broadcast,
                   since, workflow_vars, agent_vars, model_vars, history_vars>>

\* subscribe_to_workflow
Subscribed(connection_id, workflow_id) ==
    IF workflow_id \in DOMAIN workflow_subscriptions
    THEN [workflow_subscriptions EXCEPT ![workflow_id] = @ \cup {connection_id}]
    ELSE (workflow_id :> {connection_id}) @@ workflow_subscriptions

\* The endpoint received a subscribe_workflow message: the connection id is
\* subscribed and the reply sent to the socket registered under the id; when
\* that send raises, send_personal_message disconnects the id.
handle_subscribe_workflow(socket, workflow_id) ==
    LET connection_id == endpoints[socket].connection_id
        registered == connection_id \in DOMAIN active_connections
    IN
    /\ endpoints[socket].pc = "open"
    /\ IF registered /\ SendFails(active_connections[connection_id])
       THEN /\ active_connections' =
                  [c \in DOMAIN active_connections \ {connection_id} |->
                      active_connections[c]]
            /\ workflow_subscriptions' =
                  [t \in DOMAIN Subscribed(connection_id, workflow_id) |->
                      Subscribed(connection_id, workflow_id)[t]
                          \ {connection_id}]
            /\ since' = [since EXCEPT ![connection_id] =
                            [disconnected |-> TRUE, connected |-> FALSE,
                             subscribed |-> FALSE]]
            /\ broadcast' = Noting(broadcast, connection_id)
       ELSE /\ workflow_subscriptions' = Subscribed(connection_id, workflow_id)
            /\ since' = [since EXCEPT ![connection_id].subscribed = TRUE]
            /\ UNCHANGED <<active_connections, broadcast>>
    /\ UNCHANGED <<endpoints, workflow_vars, agent_vars, model_vars,
                   history_vars>>

\* receive_text raised WebSocketDisconnect: the loop is left and the finally
\* clause disconnects the endpoint's connection id.
endpoint_finally(socket) ==
    /\ endpoints[socket].pc \in {"open", "broken"}
    /\ disconnect(endpoints[socket].connection_id)
    /\ broadcast' = Noting(broadcast, endpoints[socket].connection_id)
    /\ endpoints' = [endpoints EXCEPT ![socket].pc = "closed"]
    /\ UNCHANGED <<workflow_vars, agent_vars, model_vars, history_vars>>

\* broadcast_to_workflow up to its first send: the subscribers are copied
\* into a list.
broadcast_to_workflow(workflow_id) ==
    /\ broadcast.pc = "idle"
    /\ workflow_id \in DOMAIN workflow_subscriptions
    /\ workflow_subscriptions[workflow_id] # {}
    /\ \E subscribers \in Orders(workflow_subscriptions[workflow_id]) :
          broadcast' = [pc |-> "sending", workflow_id |-> workflow_id,
                        subscribers |-> subscribers, next |-> 1,
                        delivered |-> {}, stale |-> {}]
    /\ UNCHANGED <<active_connections, workflow_subscriptions, endpoints,
                   since, workflow_vars, agent_vars, model_vars, history_vars>>

\* The broadcast after its send to the subscriber in turn.
Sent(b) ==
    [b EXCEPT !.next = @ + 1,
              !.pc = IF b.next = Len(b.subscribers) THEN "idle" ELSE @]

\* send_personal_message for the subscriber in turn: nothing for an id that
\* is not registered, the message on its socket, or disconnect when the send
\* raises; then the loop goes on.
send_personal_message ==
    LET connection_id == broadcast.subscribers[broadcast.next] IN
    /\ broadcast.pc = "sending"
    /\ IF connection_id \notin DOMAIN active_connections
       THEN /\ broadcast' = Sent(broadcast)
            /\ UNCHANGED <<active_connections, workflow_subscriptions, since>>
       ELSE IF SendFails(active_connections[connection_id])
       THEN /\ disconnect(connection_id)
            /\ broadcast' = Sent(Noting(broadcast, connection_id))
       ELSE /\ broadcast' =
                  Sent([broadcast EXCEPT !.delivered = @ \cup {connection_id}])
            /\ UNCHANGED <<active_connections, workflow_subscriptions, since>>
    /\ UNCHANGED <<endpoints, workflow_vars, agent_vars, model_vars,
                   history_vars>>

ConnectionNext ==
    \/ \E socket \in 1 .. Sockets, connection_id \in 1 .. ConnectionIds :
          connect_accept(socket, connection_id)
    \/ \E socket \in 1 .. Sockets : connect_register(socket)
    \/ \E socket \in 1 .. Sockets : client_leaves(socket)
    \/ \E socket \in 1 .. Sockets, workflow_id \in 1 .. Topics :
          handle_subscribe_workflow(socket, workflow_id)
    \/ \E socket \in 1 .. Sockets : endpoint_finally(socket)
    \/ \E workflow_id \in 1 .. Topics : broadcast_to_workflow(workflow_id)
    \/ send_personal_message

\* A ConnectionManager that has just been constructed.
ConnectionInit == Init /\ env = LoopEnv

\* The ConnectionManager, its endpoints and broadcasts, with the
\* orchestrator at rest.
ConnectionSpec == ConnectionInit /\ [][ConnectionNext]_vars

----------------------------------------------------------------------------
(* The claims. *)

Live(w) == states[w].status \in {PENDING, RUNNING}
LiveCount == Cardinality({w \in active_workflows : Live(w)})
Done(w) == pc[w] = "done"

\* C1: in every reachable state the registry holds at most
\* max_concurrent_workflows workflows whose status is Pending or Running.
C1_LiveCountWithinCeiling == LiveCount <= max_concurrent_workflows

\* C1 witness: the ceiling is reached by workflows running side by side, while
\* the registry also holds a settled workflow above the ceiling.
C1_Witness ==
    /\ LiveCount = max_concurrent_workflows
    /\ Cardinality(active_workflows) > max_concurrent_workflows

\* C2 (as claimed): a start is rejected with a capacity error only when the
\* number of Pending or Running workflows is at the ceiling; settled
\* workflows do not count.
C2_RejectedOnlyAtLiveCeiling ==
    (reply.op = "start" /\ reply.error = "CapacityError")
        => LiveCount >= max_concurrent_workflows

\* C3: a start rejected with a capacity fault creates no record, schedules no
\* task and leaves the registry and every record as they were.
C3_RejectedStartChangesNothing ==
    [][(reply'.op = "start" /\ reply'.error = "CapacityError")
          => UNCHANGED <<active_workflows, states, pc, next_id>>]_vars

\* C3 witness: a start was rejected at a full registry.
C3_Witness ==
    /\ reply.op = "start"
    /\ reply.error = "CapacityError"
    /\ Cardinality(active_workflows) = max_concurrent_workflows

\* The graph left a node by its "error" edge because next_action was missing
\* or not one the node's routing condition knows.
RoutingFault(w) ==
    \/ /\ states[w].current_step = "qa_intake"
       /\ states[w].requirements_data.next_action
              \notin {"proceed_to_planning", "await_user_responses"}
    \/ /\ states[w].current_step = "manager"
       /\ states[w].plan_data.next_action # "begin_implementation"

\* C4 (as claimed): a workflow whose stage returned an unrecognized or missing
\* next_action ends with status Failed, whatever the result's success flag.
C4_RoutingFaultFails ==
    \A w \in Created : (Done(w) /\ RoutingFault(w)) => states[w].status = FAILED

\* C5: a workflow starts Pending, and from Pending its status moves only to
\* Running: Completed and Failed are reached through Running.
C5_PendingThenRunning ==
    [][/\ \A w \in Created :
             states[w].status = PENDING
                 => states'[w].status \in {PENDING, RUNNING}
       /\ \A w \in DOMAIN states' \ Created : states'[w].status = PENDING]_vars

\* C5 witness: a workflow has ended Failed and another Completed.
C5_Witness ==
    /\ \E w \in Created : Done(w) /\ states[w].status = FAILED
    /\ \E w \in Created : Done(w) /\ states[w].status = COMPLETED

\* C6: no step decreases a workflow's total_tokens_used (every result's
\* tokens_used being >= 0).
C6_TokensNeverDecrease ==
    [][\A w \in Created :
          states'[w].total_tokens_used >= states[w].total_tokens_used]_vars

\* C6 witness: several stages have added to the total.
C6_Witness ==
    \E w \in Created : /\ states[w].current_step = "code"
                       /\ states[w].total_tokens_used >= 2

\* C7 (as claimed): the number of consecutive retries of a stage never
\* exceeds the retry bound.
C7_RetriesWithinBound == \A w \in Created : retry_count[w] <= RetryLimit

ScenarioA(w) ==
    /\ scenario[w]
    /\ states[w].plan_data.next_action = "begin_implementation"

\* C9: a workflow that ran Scenario A ends Completed, with current_step at
\* the review stage and errors empty.
C9_HappyPath ==
    \A w \in Created :
        (Done(w) /\ ScenarioA(w))
            => /\ states[w].status = COMPLETED
               /\ states[w].current_step = "review"
               /\ states[w].errors = <<>>

\* C9 witness: a workflow with two tasks has run Scenario A to its end.
C9_Witness ==
    \E w \in Created : /\ Done(w)
                       /\ ScenarioA(w)
                       /\ Len(states[w].plan_data.tasks) = 2

\* C10: a status query for an id that is not registered returns not-found,
\* raises nothing and changes neither the registry nor any record.
C10_StatusOfUnknownId ==
    [][(reply'.op = "status" /\ reply'.id \notin active_workflows)
          => /\ reply'.error = "none"
             /\ ~reply'.found
             /\ UNCHANGED <<active_workflows, states, pc, next_id>>]_vars

\* C10 witness: a query for an id never issued returned not-found.
C10_Witness ==
    /\ reply.op = "status"
    /\ reply.id \notin Created
    /\ ~reply.found

\* C11 (as claimed): when shutdown returns, no background task is still
\* suspended in a stage call: every workflow that was mid-stage has settled
\* in a terminal status (the code cancels no task, so none is cancelled).
C11_ShutdownSettlesInFlight ==
    [][(shutdown_pc # "done" /\ shutdown_pc' = "done")
          => \A w \in Created :
                pc[w] \in Awaiting => states'[w].status \in TerminalStatus]_vars

\* C12 (as claimed): once shutdown has been called, every start is rejected:
\* it returns an error, registers no record and schedules no task.
C12_NoStartAfterShutdown ==
    [][(shutdown_pc # "idle" /\ reply'.op = "start")
          => /\ reply'.error # "none"
             /\ UNCHANGED <<active_workflows, states, pc, next_id>>]_vars

\* C13 (as claimed): once the status of a workflow is terminal, no step
\* changes any field of its record (its status included, so it settles in
\* one terminal status).
C13_TerminalRecordImmutable ==
    [][\A w \in Created :
          states[w].status \in TerminalStatus => states'[w] = states[w]]_vars

\* C14 (as claimed, for an exception out of the graph execution): the except
\* branch of the background task appends the exception to the workflow's
\* errors and leaves its status Failed.
C14_LoopFaultRecorded ==
    [][\A w \in Created :
          execute_workflow_except(w)
              => /\ states'[w].status = FAILED
                 /\ Len(states'[w].errors) = Len(states[w].errors) + 1]_vars

\* C15: what a caller reads in the value it kept from a status query (or in
\* an element of the list of workflows) is changed by no step but the
\* caller's own, and the caller's writes to it change no record.
C15_QueryResultIsSnapshot ==
    [][/\ (held # NoSnapshot /\ ~reader_keeps /\ ~reader_modifies)
             => Seen(held)' = Seen(held)
       /\ reader_modifies => states' = states]_vars

\* C15 witness: the caller keeps the result of a status query made while the
\* workflow was running; since then the loop has changed the record's status,
\* current step, errors and token total.
C15_Witness ==
    /\ held # NoSnapshot
    /\ "errors" \in DOMAIN held.value
    /\ held.value.status = "running"
    /\ states[held.id].status = FAILED
    /\ states[held.id].current_step # held.value.current_step
    /\ states[held.id].errors # held.value.errors
    /\ states[held.id].total_tokens_used > held.value.total_tokens_used

\* C16: a record is changed only by a step of the background task of its own
\* workflow, and a task is scheduled only for an id that had none: one task
\* per id, whatever the interleaving of the workflows.
C16_SingleWriter ==
    [][/\ \A w \in Created : states'[w] # states[w] => Loop(w)
       /\ \A w \in DOMAIN pc' :
             (pc'[w] = "scheduled" /\ w \in DOMAIN pc) => pc[w] = "scheduled"
       /\ \A w \in DOMAIN pc' \ DOMAIN pc :
             pc'[w] = "scheduled" /\ w \notin Created]_vars

\* C16 witness: two workflows run side by side, each mid-stage at a different
\* node, and one of them has since failed.
C16_Witness ==
    \E v, w \in Created :
        /\ v # w
        /\ states[v].status = FAILED
        /\ states[v].errors # <<>>
        /\ states[w].status = RUNNING
        /\ states[w].errors = <<>>
        /\ pc[w] = "code_await"

\* C17: when a start returns an id, that id is registered, a status query
\* for it finds the record, the record is Pending with no stage entered, and
\* its background task is scheduled and has not run.
C17_StartReturnsAtOnce ==
    (reply.op = "start" /\ reply.error = "none")
        => /\ reply.id \in active_workflows
           /\ reply.id \in Created
           /\ to_dict(states[reply.id]).status = "pending"
           /\ states[reply.id].current_step = "pending"
           /\ pc[reply.id] = "scheduled"

\* C17 witness: a start has returned an id while an earlier workflow is
\* mid-stage.
C17_Witness ==
    /\ reply.op = "start"
    /\ reply.error = "none"
    /\ \E w \in Created : w # reply.id /\ pc[w] \in Awaiting

\* A stage call of workflow w timed out.
StageTimedOut(w) ==
    \E i \in DOMAIN states[w].errors,
       failed \in {"QA Intake failed", "Manager failed",
                   "Code generation failed"} :
        states[w].errors[i] = failed \o TimedOut

\* C18 (as claimed): a workflow one of whose stage calls timed out ends with
\* status TimedOut, never Failed.
C18_TimeoutIsNotFailure ==
    \A w \in Created :
        (Done(w) /\ StageTimedOut(w)) => states[w].status = TIMEOUT

\* The background task of workflow w enters a node of the graph.
StageEntered(w) ==
    \/ qa_intake_node_call(w)
    \/ manager_node_call(w)
    \/ code_node_call(w)
    \/ review_node(w)

\* C19: once the status of a workflow is Failed or Completed, its background
\* task enters no further stage.
C19_NoStageAfterTerminal ==
    [][\A w \in Created :
          states[w].status \in {FAILED, COMPLETED} => ~StageEntered(w)]_vars

\* C19 witness: Intake failed on a repeated call, so the record still holds
\* the await_user_responses of the call before, and the task has ended.
C19_Witness ==
    \E w \in Created :
        /\ Done(w)
        /\ states[w].status = FAILED
        /\ states[w].current_step = "qa_intake"
        /\ states[w].errors = <<"QA Intake failed">>
        /\ states[w].requirements_data.next_action = "await_user_responses"

\* C20 (as claimed): completed_at of a workflow is stamped whenever its
\* status is terminal, and unset while its status is Pending or Running.
C20_StampedIffTerminal ==
    \A w \in Created :
        (states[w].status \in TerminalStatus) <=> (states[w].completed_at # Unset)

\* C21: a workflow whose status is Failed has a non-empty errors: each fault
\* that sets Failed also appends to errors.
C21_FailedHasError ==
    \A w \in Created : states[w].status = FAILED => states[w].errors # <<>>

\* C21 witness: a revision left one error, then the graph execution raised
\* and the loop boundary failed the workflow with an error of its own.
C21_Witness ==
    \E w \in Created :
        /\ states[w].status = FAILED
        /\ Done(w)
        /\ states[w].errors = <<"Code generation failed", "Execution error">>

\* C22: a stage call of a workflow starts only from the node the graph has
\* routed to, with no other call of that workflow in flight, and when the
\* call returns the next node is the one the routing condition gives for the
\* record with the result applied; calls of different workflows interleave.
C22_StagesSequential ==
    [][\A w \in Created :
          /\ (pc[w] \notin Awaiting /\ pc'[w] \in Awaiting)
                => /\ pc[w] \in Nodes
                   /\ pc'[w] = pc[w] \o "_await"
                   /\ states'[w].current_step = pc[w]
          /\ (pc[w] \in Awaiting /\ pc'[w] # pc[w])
                => \E node \in Nodes :
                      /\ pc[w] = node \o "_await"
                      /\ pc'[w] = NextNode(node, states'[w])]_vars

\* C22 witness: two workflows each have a stage call in flight, at different
\* stages.
C22_Witness ==
    \E v, w \in Created :
        /\ pc[v] = "qa_intake_await"
        /\ pc[w] = "code_await"

\* C23: when the process of an agent raises (a timeout or another
\* exception), execute returns a result with success false and the error of
\* the exception, raises nothing, and leaves the agent's status TIMEOUT or
\* ERROR.
C23_ExecuteNeverThrows ==
    [][\A c \in 1 .. Callers :
          (executions[c].pc = "process" /\ executions'[c].pc # "process"
             /\ executions'[c].outcome \in {"timeout", "exception"})
          => /\ executions'[c].pc = "returned"
             /\ ~executions'[c].result.success
             /\ executions'[c].result.error =
                   IF executions'[c].outcome = "timeout"
                   THEN "Execution timed out" ELSE "process error"
             /\ agent_status' =
                   IF executions'[c].outcome = "timeout"
                   THEN "timeout" ELSE "error"]_vars

\* C23 witness: of two concurrent calls one has timed out and the other has
\* met another exception.
C23_Witness ==
    \E c, d \in 1 .. Callers :
        /\ executions[c].pc = "returned"
        /\ executions[c].outcome = "timeout"
        /\ executions[d].pc = "returned"
        /\ executions[d].outcome = "exception"

\* C24: a call of generate made while is_connected is false raises the
\* RuntimeError, starts no inference and leaves the stats as they were;
\* is_connected is false until initialize has succeeded, shutdown leaves it
\* false, and it stays false from then on.
C24_GenerateNeedsConnection ==
    [][/\ \A c \in 1 .. Callers :
             (~is_connected /\ generations[c].pc # "inference"
                /\ generations'[c] # generations[c])
             => /\ generations'[c] = [pc |-> "raised", error |-> NotInitialized]
                /\ model_stats' = model_stats
       /\ model_pc' \in {"new", "initializing", "failed", "shut"}
             => ~is_connected']_vars

\* C24 witness: after the shutdown a call of generate has raised, while a
\* call that began before the shutdown has since returned and been counted.
C24_Witness ==
    /\ model_pc = "shut"
    /\ \E c, d \in 1 .. Callers :
          /\ generations[c] = [pc |-> "raised", error |-> NotInitialized]
          /\ generations[d].pc = "returned"
    /\ model_stats.total_requests = 1

\* The error a node appends for a result of Intake, or of the Planner, with
\* success false, and the stage that result came from.
StageOfFailure ==
    [e \in {"QA Intake failed", "QA Intake failed" \o TimedOut} |-> "qa_intake"]
        @@ [e \in {"Manager failed", "Manager failed" \o TimedOut} |-> "manager"]

\* C25: once Intake or the Planner has returned a result with success false,
\* its error is the last entry of errors, the status is Failed and stays so,
\* and the background task enters no further stage: it is at the end of the
\* graph, with current_step at the stage that failed.
C25_FailedStageEndsWorkflow ==
    \A w \in Created :
        \A i \in DOMAIN states[w].errors :
            states[w].errors[i] \in DOMAIN StageOfFailure
                => /\ i = Len(states[w].errors)
                   /\ states[w].status = FAILED
                   /\ pc[w] \in {END, "done"}
                   /\ states[w].current_step =
                          StageOfFailure[states[w].errors[i]]

\* C25 witness: one workflow has ended on a failed Planner result, another on
\* a failed Intake result.
C25_Witness ==
    /\ \E w \in Created : Done(w) /\ states[w].errors = <<"Manager failed">>
    /\ \E w \in Created : Done(w) /\ states[w].errors = <<"QA Intake failed">>

\* C26: when Intake returns a successful result, the next node is the
\* Planner for next_action proceed_to_planning and Intake again for
\* await_user_responses; when the Planner returns a successful result with
\* next_action begin_implementation, the next node is the Implementer.
C26_RoutingTable ==
    [][\A w \in Created :
          /\ (pc[w] = "qa_intake_await" /\ pc'[w] # pc[w]
                /\ states'[w].status # FAILED)
             => /\ states'[w].requirements_data.next_action
                       = "proceed_to_planning" => pc'[w] = "manager"
                /\ states'[w].requirements_data.next_action
                       = "await_user_responses" => pc'[w] = "qa_intake"
          /\ (pc[w] = "manager_await" /\ pc'[w] # pc[w]
                /\ states'[w].status # FAILED)
             => (states'[w].plan_data.next_action = "begin_implementation"
                    => pc'[w] = "code")]_vars

\* C26 witness: Intake handed over to the Planner with proceed_to_planning,
\* the Planner handed over with begin_implementation, and the Implementer is
\* the node the graph runs next.
C26_Witness ==
    \E w \in Created :
        /\ pc[w] = "code"
        /\ states[w].current_step = "manager"
        /\ states[w].status = RUNNING
        /\ states[w].requirements_data.next_action = "proceed_to_planning"
        /\ states[w].plan_data.next_action = "begin_implementation"

\* C27: when the Implementer runs and finds no task pending, the Reviewer is
\* the next node run; the graph does not end from the Implementer.
C27_ExhaustedGoesToReview ==
    [][\A w \in Created :
          (/\ pc[w] = "code"
           /\ PendingTasks(states[w].plan_data.tasks) = {}
           /\ states'[w].implementation_data.all_tasks_complete
           /\ states'[w].current_step = "code")
          => pc'[w] = "review"]_vars

\* Every task of the plan of w has status completed.
EveryTaskCompleted(w) ==
    \A i \in DOMAIN states[w].plan_data.tasks :
        states[w].plan_data.tasks[i] = "completed"

\* C28: when the Reviewer runs and every task of the plan is completed, the
\* graph ends and the workflow's status is Completed, and stays so when the
\* background task has finished; when the Reviewer runs and some task is not
\* completed, the status stays Running and the Implementer is the next node.
C28_ReviewDecides ==
    /\ [][\A w \in Created :
             (pc[w] = "review" /\ states'[w].current_step = "review")
             => IF EveryTaskCompleted(w)
                THEN /\ states'[w].status = COMPLETED
                     /\ pc'[w] = END
                ELSE /\ states[w].status = RUNNING
                     /\ states'[w].status = RUNNING
                     /\ pc'[w] = "code"]_vars
    /\ [](\A w \in Created :
             (/\ pc[w] \in {END, "done"}
              /\ states[w].current_step = "review"
              /\ EveryTaskCompleted(w))
             => states[w].status = COMPLETED)

\* C28 witness: a plan of two tasks was implemented, the Reviewer approved it
\* and the background task finished with status Completed.
C28_Witness ==
    \E w \in Created :
        /\ pc[w] = "done"
        /\ states[w].current_step = "review"
        /\ states[w].implementation_data.review_status = "approved"
        /\ Len(states[w].plan_data.tasks) = 2
        /\ states[w].status = COMPLETED

\* C29: when the Implementer returns a failed result flagged
\* revision_required, the status is not Failed, the error is appended, the
\* task list is unchanged (the task stays pending) and the Implementer is the
\* next node, which awaits the code agent for the same first pending task.
C29_RevisionRetriesSameTask ==
    [][\A w \in Created :
          LET before == states[w]
              after  == states'[w]
              flagged ==
                  /\ pc[w] = "code_await"
                  /\ \/ /\ ~before.implementation_data.revision_required
                        /\ after.implementation_data.revision_required
                     \/ /\ Len(after.errors) > Len(before.errors)
                        /\ after.status # FAILED
          IN
          /\ flagged
             => /\ after.status = RUNNING
                /\ after.implementation_data.revision_required
                /\ after.errors = Append(before.errors, "Code generation failed")
                /\ after.plan_data.tasks = before.plan_data.tasks
                /\ PendingTasks(after.plan_data.tasks) # {}
                /\ pc'[w] = "code"
          /\ (/\ pc[w] = "code"
              /\ states[w].implementation_data.revision_required
              /\ PendingTasks(states[w].plan_data.tasks) # {}
              /\ pc'[w] \notin {"code", "done"})
             => /\ pc'[w] = "code_await"
                /\ after.plan_data.tasks = before.plan_data.tasks]_vars

\* C29 witness: the code agent asked for a revision of the first task and
\* the Implementer is awaiting the code agent again for that task.
C29_Witness ==
    \E w \in Created :
        /\ pc[w] = "code_await"
        /\ retry_count[w] = 1
        /\ states[w].status = RUNNING
        /\ states[w].implementation_data.revision_required
        /\ states[w].errors = <<"Code generation failed">>
        /\ PendingTasks(states[w].plan_data.tasks) # {}
        /\ FirstPending(states[w].plan_data.tasks) = 1

\* The moves of current_step the routing table of the specification allows,
\* with the entry into the first stage.
StageEdges ==
    {<<"pending", "qa_intake">>, <<"qa_intake", "qa_intake">>,
     <<"qa_intake", "manager">>, <<"manager", "code">>, <<"code", "code">>,
     <<"code", "review">>, <<"review", "code">>}

\* C30: current_step changes only when a node starts, and every start of a
\* node, whether it changes current_step or runs the same stage again, goes
\* along Intake to Intake, Intake to Planner, Planner to Implementer,
\* Implementer to Implementer, Implementer to Reviewer or Reviewer to
\* Implementer; the first stage run is Intake and a new record has no stage.
C30_StageFollowsEdges ==
    [][/\ \A w \in Created :
            LET from == states[w].current_step
                to   == states'[w].current_step
            IN
            /\ from # to
               => /\ pc[w] = to
                  /\ <<from, to>> \in StageEdges
            /\ (/\ pc[w] \in Nodes
                /\ to = pc[w]
                /\ pc'[w] # "done"
                /\ <<states[w], pc[w]>> # <<states'[w], pc'[w]>>)
               => <<from, to>> \in StageEdges
       /\ \A w \in DOMAIN states' \ Created :
            states'[w].current_step = "pending"]_vars

\* C30 witness: the stages ran Intake, Planner, Implementer, Reviewer and the
\* Implementer again, which is awaiting the code agent.
C30_Witness ==
    \E w \in Created :
        /\ pc[w] = "code_await"
        /\ states[w].current_step = "code"
        /\ states[w].implementation_data.review_status
               = "continue_implementation"
        /\ states[w].status = RUNNING

\* C31: the workflow's total_tokens_used equals the sum of tokens_used over
\* all the results its stage calls have returned so far, failed results
\* included.
C31_TotalIsSumOfReturned ==
    \A w \in Created : states[w].total_tokens_used = tokens_returned[w]

\* s is a prefix of t.
IsPrefix(s, t) == Len(s) <= Len(t) /\ SubSeq(t, 1, Len(s)) = s

\* The marks of a successful result applied by the stage that awaited it:
\* no status change, and for the Implementer the task marked completed.
SuccessApplied(w) ==
    /\ states'[w].status = states[w].status
    /\ pc[w] = "code_await"
         => states'[w].plan_data.tasks[FirstPending(states[w].plan_data.tasks)]
               = "completed"

\* C32: in every step the errors of a record before the step are a prefix of
\* its errors after it, so entries are never removed, replaced or reordered;
\* and when a stage call returns, either exactly one error is appended or
\* the result was a successful one, so no failed result goes unrecorded; a
\* status that becomes Failed comes with an appended error.
C32_ErrorsAppendOnly ==
    [][\A w \in Created :
          /\ IsPrefix(states[w].errors, states'[w].errors)
          /\ (pc[w] \in Awaiting /\ pc'[w] # pc[w])
             => \/ Len(states'[w].errors) = Len(states[w].errors) + 1
                \/ /\ states'[w].errors = states[w].errors
                   /\ SuccessApplied(w)
          /\ (states[w].status # FAILED /\ states'[w].status = FAILED)
             => Len(states'[w].errors) = Len(states[w].errors) + 1]_vars

\* C32 witness: a revision was recorded, then the failure that ended the
\* workflow was appended after it.
C32_Witness ==
    \E w \in Created :
        /\ states[w].errors = <<"Code generation failed", "Code error">>
        /\ states[w].status = FAILED

\* C33: once shutdown has cleared the registry, only a start that succeeds
\* changes the registry: no background task that was still running puts its
\* record back or changes the registered ids.
C33_RegistryStaysCleared ==
    [][(shutdown_pc = "done" /\ next_id' = next_id)
          => active_workflows' = active_workflows]_vars

\* C34: a workflow whose status is Completed has a plan with at least one
\* task and every task of it completed.
C34_CompletedMeansAllTasksDone ==
    \A w \in Created :
        states[w].status = COMPLETED
            => AllTasksCompleted(states[w].plan_data.tasks)

\* C35: when the Implementer's call returns a successful result (the first
\* pending task is marked completed and no error appended) after an earlier
\* call had asked for a revision, the Reviewer is the next node.
C35_RevisionNotSticky ==
    [][\A w \in Created :
          (/\ pc[w] = "code_await"
           /\ states[w].implementation_data.revision_required
           /\ states'[w].errors = states[w].errors
           /\ states'[w].plan_data.tasks[
                  FirstPending(states[w].plan_data.tasks)] = "completed")
          => pc'[w] = "review"]_vars

\* C36: while at least one call of execute on the agent is in flight, the
\* agent's status is PROCESSING.
C36_ProcessingWhileInFlight ==
    InFlight # {} => agent_status = "processing"

\* C37: when no call is in flight, total_executions equals
\* success_count + error_count.
C37_ExecutionsAreSuccessesPlusErrors ==
    InFlight = {}
        => execution_stats.total_executions
              = execution_stats.success_count + execution_stats.error_count

\* C38: message_history never holds more than 100 messages and is always
\* the most recent messages added, in arrival order; and the call that would
\* make it 101 long leaves the 50 most recent.
C38_HistoryIsBoundedSuffix ==
    /\ [](/\ Len(message_history) <= HistoryLimit
          /\ \A i \in DOMAIN message_history :
                message_history[i]
                    = messages_added - Len(message_history) + i)
    /\ [][Len(message_history) = HistoryLimit
             => Len(message_history') = HistoryKept]_vars

\* C38 witness: the 101st message was added and the history cut to the
\* messages 52 to 101.
C38_Witness ==
    /\ messages_added = HistoryLimit + 1
    /\ Len(message_history) = HistoryKept
    /\ message_history[1] = HistoryLimit - HistoryKept + 2
    /\ message_history[HistoryKept] = HistoryLimit + 1

\* The open socket is the one registered under its connection id.
Registered(socket) ==
    /\ endpoints[socket].connection_id \in DOMAIN active_connections
    /\ active_connections[endpoints[socket].connection_id] = socket

\* C39: a socket that is open and registered under its connection id stays
\* registered under it in every step that leaves the socket open, whatever
\* another socket with the same id does.
C39_OpenConnectionStaysRegistered ==
    [][\A socket \in 1 .. Sockets :
          (/\ endpoints[socket].pc = "open"
           /\ Registered(socket)
           /\ endpoints'[socket].pc = "open")
          => /\ endpoints[socket].connection_id \in DOMAIN active_connections'
             /\ active_connections'[endpoints[socket].connection_id]
                   = socket]_vars

\* disconnect ran for connection_id in this step: an endpoint serving it
\* closed, or a send to it failed.
DisconnectRan(connection_id) ==
    \/ \E socket \in 1 .. Sockets :
          /\ endpoints[socket].connection_id = connection_id
          /\ endpoints[socket].pc # "closed"
          /\ endpoints'[socket].pc = "closed"
    \/ /\ connection_id \in DOMAIN active_connections
       /\ SendFails(active_connections[connection_id])
       /\ broadcast.pc = "sending"
       /\ broadcast'.next # broadcast.next
       /\ broadcast.subscribers[broadcast.next] = connection_id

\* C40: after disconnect(c), c is in neither active_connections nor any
\* subscriber set; a broadcast begun after the last disconnect of c delivers
\* to c only if c connected and subscribed again since; and the send to each
\* subscriber in turn moves the broadcast on by one, delivers to a
\* subscriber whose socket takes the message, and the broadcast ends only
\* after its last subscriber, also when a send failed.
C40_DisconnectForgetsConnection ==
    [][\A c \in 1 .. ConnectionIds :
          /\ DisconnectRan(c)
             => /\ c \notin DOMAIN active_connections'
                /\ \A t \in DOMAIN workflow_subscriptions' :
                      c \notin workflow_subscriptions'[t]
          /\ (broadcast.pc = "sending"
                /\ c \in broadcast'.delivered \ broadcast.delivered)
             => /\ c \in DOMAIN active_connections
                /\ (since[c].disconnected /\ c \notin broadcast.stale)
                      => since[c].connected /\ since[c].subscribed
          /\ (/\ broadcast.pc = "sending"
              /\ broadcast'.next # broadcast.next
              /\ broadcast.subscribers[broadcast.next] = c)
             => /\ broadcast'.next = broadcast.next + 1
                /\ broadcast'.subscribers = broadcast.subscribers
                /\ (broadcast'.pc = "idle")
                      <=> (broadcast.next = Len(broadcast.subscribers))
                /\ (c \in DOMAIN active_connections
                      /\ ~SendFails(active_connections[c]))
                      => c \in broadcast'.delivered]_vars

\* C40 witness: a broadcast to two subscribers is over; the send to the
\* first failed and disconnected it, the second received the message.
C40_Witness ==
    /\ broadcast.pc = "idle"
    /\ Len(broadcast.subscribers) = 2
    /\ broadcast.stale = {broadcast.subscribers[1]}
    /\ broadcast.delivered = {broadcast.subscribers[2]}
    /\ broadcast.subscribers[1] \notin DOMAIN active_connections
    /\ \A t \in DOMAIN workflow_subscriptions :
          broadcast.subscribers[1] \notin workflow_subscriptions[t]

====
